---- MODULE Spec2Model ----
(***************************************************************************)
(* Model of src/index.js: the hitchwiki -> firestore ingestion script.     *)
(*                                                                         *)
(* One run of the script ("pass") is ingest(): downloadDump, getSrcDb,     *)
(* getDstDb, getLastIngestedRow, getSrcRows, srcRows.map(formatRow),       *)
(* insertRows.  The model runs up to MaxPasses passes one after the other  *)
(* over one source snapshot and one target store.                          *)
(*                                                                         *)
(* Representation of values                                                *)
(*   - The `datetime` column of the dump is TEXT, 'YYYY-MM-DD HH:MM:SS'    *)
(*     with an optional '.fff' fraction.  The fixed-width prefix is        *)
(*     modelled by its number of seconds, the optional fraction by an      *)
(*     optional second element: <<s>> or <<s, f>>.  SQLite compares the    *)
(*     column to DATETIME(cutoff,'unixepoch') as text (TextLess); JS       *)
(*     parses it with new Date(text) (DateParse).  The process time zone   *)
(*     is taken to be UTC, so that both read the same instant.             *)
(*   - A JS Date is a number of ticks (TicksPerSec per second); a          *)
(*     firestore Timestamp is [seconds, nanoseconds] with the sub-second   *)
(*     part kept in ticks.                                                 *)
(*   - A string is a sequence of tokens; the column `name` is <<>> for     *)
(*     NULL and <<str>> for a string.                                      *)
(*   - A document id `${type}-${id}` is the pair <<type, id>>.             *)
(***************************************************************************)
EXTENDS Integers, Sequences, FiniteSets, TLC

\* ------------------------------------------------------------------ bounds

\* Largest number of rows of the `points` table of the dump.
MaxRows == 2
\* Largest whole-second creation time of a row.
MaxSec == 2
\* Largest sub-second fraction (in ticks) written in a datetime text.
MaxFrac == 1
\* Number of runs of the script the model follows.
MaxPasses == 3

\* MAX_WRITES of the script (10000), scaled so that a batch can exceed it.
MAX_WRITES == 1

TicksPerSec == MaxFrac + 1

\* ------------------------------------------------------------------ state

VARIABLES
    points,        \* the `points` table of the downloaded dump (rowid order)
    store,         \* collection "hitching-spots": document id -> document
    pc,            \* position of ingest(): idle, download, watermark, select,
                   \* transform, insert, done
    passes,        \* number of runs of the script started so far
    now,           \* the clock read by Timestamp.now()
    cutoff,        \* `cutoff` of ingest()
    srcRows,       \* `srcRows` of ingest()
    dstRows,       \* `dstRows` of ingest() / `rows` of insertRows
    next,          \* number of rows the for-loop of insertRows has taken
    done,          \* `done` of insertRows
    inflight,      \* position of the row whose setDoc is awaited, 0 if none
    trace,         \* external calls of this pass, in order, with their result
    console,       \* what this pass logged: summary line and quota notices
    exitCode,      \* exit code of the process, -1 while it runs
    prev           \* what the previous pass did (history)

vars == <<points, store, pc, passes, now, cutoff, srcRows, dstRows, next,
          done, inflight, trace, console, exitCode, prev>>

\* ------------------------------------------------------- text and time

\* Text of a datetime column value.
DateTexts ==
    {<<s>> : s \in 1..MaxSec} \cup {<<s, f>> : s \in 1..MaxSec, f \in 1..MaxFrac}

\* SQLite's comparison of two TEXT values (memcmp, then length).
RECURSIVE TextLess(_, _)
TextLess(a, b) ==
    IF b = <<>> THEN FALSE
    ELSE IF a = <<>> THEN TRUE
    ELSE IF Head(a) # Head(b) THEN Head(a) < Head(b)
    ELSE TextLess(Tail(a), Tail(b))

\* DATETIME(cutoffTimestamp, 'unixepoch'): 'YYYY-MM-DD HH:MM:SS', no fraction.
cutoffDate(cutoffTimestamp) == <<cutoffTimestamp>>

\* new Date(datetime): the instant, in ticks.
DateParse(datetime) ==
    datetime[1] * TicksPerSec + (IF Len(datetime) > 1 THEN datetime[2] ELSE 0)

\* Timestamp.fromDate(date)
TimestampFromDate(date) ==
    [seconds |-> date \div TicksPerSec, nanoseconds |-> date % TicksPerSec]

\* Order of firestore Timestamps.
TimestampLess(a, b) ==
    \/ a.seconds < b.seconds
    \/ a.seconds = b.seconds /\ a.nanoseconds < b.nanoseconds

TimestampLeq(a, b) == a = b \/ TimestampLess(a, b)

\* ------------------------------------------------------------- strings

HitchwikiTag == "(Hitchwiki)"

\* String.prototype.replace(HitchwikiTag, ""): the first occurrence only.
RECURSIVE ReplaceFirstTag(_)
ReplaceFirstTag(s) ==
    IF s = <<>> THEN <<>>
    ELSE IF Head(s) = HitchwikiTag THEN Tail(s)
    ELSE <<Head(s)>> \o ReplaceFirstTag(Tail(s))

RECURSIVE TrimStart(_)
TrimStart(s) ==
    IF s # <<>> /\ Head(s) = " " THEN TrimStart(Tail(s)) ELSE s

RECURSIVE TrimEnd(_)
TrimEnd(s) ==
    IF s # <<>> /\ s[Len(s)] = " " THEN TrimEnd(SubSeq(s, 1, Len(s) - 1)) ELSE s

\* String.prototype.trim()
Trim(s) == TrimEnd(TrimStart(s))

\* (name || "").replace("(Hitchwiki)", "").trim()
CleanName(name) == Trim(ReplaceFirstTag(IF name = <<>> THEN <<>> ELSE name[1]))

\* ------------------------------------------------------------- geohash

\* The first bits of the geohash of (lat, lon): longitude and latitude
\* bisected in turn, longitude first, read as a binary number.
RECURSIVE GeohashBits(_, _, _, _, _, _, _, _)
GeohashBits(lat, lon, latLo, latHi, lonLo, lonHi, even, n) ==
    IF n = 0 THEN 0
    ELSE IF even
    THEN LET mid == (lonLo + lonHi) \div 2 IN
         IF lon >= mid
         THEN 2 ^ (n - 1) + GeohashBits(lat, lon, latLo, latHi, mid, lonHi, FALSE, n - 1)
         ELSE GeohashBits(lat, lon, latLo, latHi, lonLo, mid, FALSE, n - 1)
    ELSE LET mid == (latLo + latHi) \div 2 IN
         IF lat >= mid
         THEN 2 ^ (n - 1) + GeohashBits(lat, lon, mid, latHi, lonLo, lonHi, TRUE, n - 1)
         ELSE GeohashBits(lat, lon, latLo, mid, lonLo, lonHi, TRUE, n - 1)

\* geofire.geohashForLocation([lat, lon]), cut to its first base-32 digit.
geohashForLocation(lat, lon) == GeohashBits(lat, lon, -90, 90, -180, 180, TRUE, 5)

\* new GeoPoint(lat, lon) throws unless the coordinates are in range.
ValidGeoPoint(lat, lon) == lat >= -90 /\ lat <= 90 /\ lon >= -180 /\ lon <= 180

\* --------------------------------------------------- the source snapshot

LatOf(id) == ((id * 37) % 181) - 90
LonOf(id) == ((id * 101) % 361) - 180
NameOf(id) ==
    CASE id % 3 = 1 -> <<>>
      [] id % 3 = 2 -> << <<"X", " ", HitchwikiTag>> >>
      [] OTHER      -> << <<" ", "Y", HitchwikiTag, " ">> >>

\* A rating of 3, 4 or 5, varying with the row.
RatingOf(id, datetime) == 3 + ((id + Len(datetime) + datetime[1]) % 3)

Point(id, lat, rating, datetime, banned, reviewed) ==
    [id |-> id, lat |-> lat, lon |-> LonOf(id), rating |-> rating,
     name |-> NameOf(id), datetime |-> datetime,
     banned |-> banned, reviewed |-> reviewed]

\* The rows the table may hold for one id: an ingestible row created at any
\* time, or a newest row that is low rated, banned, unreviewed, or whose
\* latitude is out of range.
PointsOf(id) ==
    {Point(id, LatOf(id), RatingOf(id, dt), dt, 0, 1) : dt \in DateTexts}
    \cup {Point(id, LatOf(id), 2, <<MaxSec>>, 0, 1),
          Point(id, LatOf(id), 5, <<MaxSec>>, 1, 1),
          Point(id, LatOf(id), 4, <<MaxSec>>, 0, 0),
          Point(id, 91, 4, <<MaxSec>>, 0, 1)}

\* The tables of n rows, ids 1..n in rowid order.
RECURSIVE Tables(_)
Tables(n) ==
    IF n = 0 THEN {<<>>}
    ELSE {Append(t, p) : t \in Tables(n - 1), p \in PointsOf(n)}

Snapshots == UNION {Tables(n) : n \in 0..MaxRows}

\* ------------------------------------------------------ the target store

Provenance == "hitchwiki"

\* A document id that also carries the time of the run.
DocIdPerRun(row) ==
    <<row.source.type, row.source.id, row.source.ingestedTimestamp.seconds>>

\* doc(db, "hitching-spots", `${row.source.type}-${row.source.id}`)
DocId(row) == <<row.source.type, row.source.id>>

\* A spot submitted through the application, not ingested.
AppSpot ==
    [coords |-> [latitude |-> 0, longitude |-> 0],
     geohash |-> geohashForLocation(0, 0),
     rating |-> 1,
     user |-> [type |-> "guest", name |-> <<"Z">>],
     submittedTimestamp |-> [seconds |-> MaxSec + 1, nanoseconds |-> 0],
     source |-> [type |-> "app", id |-> 0,
                 ingestedTimestamp |-> [seconds |-> 0, nanoseconds |-> 0]]]

EmptyStore == [k \in {} |-> AppSpot]

\* A write that adds a document under a fresh id each time (addDoc).
SetDocAddAuto(st, id, data) ==
    LET fresh == <<id[1], id[2], Cardinality(DOMAIN st)>> IN
    [k \in DOMAIN st \cup {fresh} |-> IF k = fresh THEN data ELSE st[k]]

\* setDoc(ref, data): create or overwrite the document `id`.
SetDoc(st, id, data) ==
    [k \in DOMAIN st \cup {id} |-> IF k = id THEN data ELSE st[k]]

\* The documents of the store with source.type == "hitchwiki".
Ingested(st) == {k \in DOMAIN st : st[k].source.type = Provenance}

\* The same query without its where clause.
LastIngestedRowsNoWhere(st) ==
    {st[k] : k \in {k \in DOMAIN st :
                      \A j \in DOMAIN st :
                         TimestampLeq(st[j].submittedTimestamp,
                                      st[k].submittedTimestamp)}}

\* getLastIngestedRow: where source.type == "hitchwiki", orderBy
\* submittedTimestamp desc, limit 1.  The set of documents the query may
\* return as docs[0] (empty when no document matches).
LastIngestedRows(st) ==
    {st[k] : k \in {k \in Ingested(st) :
                      \A j \in Ingested(st) :
                         TimestampLeq(st[j].submittedTimestamp,
                                      st[k].submittedTimestamp)}}

\* ------------------------------------------------------------ selection

\* The WHERE clause without `reviewed = 1`.
SelectedNoReview(row, cutoffTimestamp) ==
    /\ row.banned = 0
    /\ row.rating > 2
    /\ TextLess(cutoffDate(cutoffTimestamp), row.datetime)

\* The WHERE clause without `rating > 2`.
SelectedAnyRating(row, cutoffTimestamp) ==
    /\ row.banned = 0
    /\ row.reviewed = 1
    /\ TextLess(cutoffDate(cutoffTimestamp), row.datetime)

\* The WHERE clause of getSrcRows.
Selected(row, cutoffTimestamp) ==
    /\ row.banned = 0
    /\ row.reviewed = 1
    /\ row.rating > 2
    /\ TextLess(cutoffDate(cutoffTimestamp), row.datetime)

\* ORDER BY datetime: ascending by the text, ties in any order.
Ordered(rows) ==
    \A i, j \in 1..Len(rows) : i < j => ~TextLess(rows[j].datetime, rows[i].datetime)

\* The results db.all may return for the query of getSrcRows.
SrcRowsOf(table, cutoffTimestamp) ==
    LET idx == {i \in 1..Len(table) : Selected(table[i], cutoffTimestamp)}
        n   == Cardinality(idx)
    IN  {[i \in 1..n |-> table[p[i]]] :
            p \in {q \in [1..n -> idx] :
                     /\ \A a, b \in 1..n : a # b => q[a] # q[b]
                     /\ Ordered([i \in 1..n |-> table[q[i]]])}}

\* ------------------------------------------------------------ transform

\* formatRow with submittedTimestamp taken from the clock.
formatRowSubmittedNow(row, t) ==
    [coords |-> [latitude |-> row.lat, longitude |-> row.lon],
     geohash |-> geohashForLocation(row.lat, row.lon),
     rating |-> row.rating - 2,
     user |-> [type |-> "guest", name |-> CleanName(row.name)],
     submittedTimestamp |-> t,
     source |-> [type |-> Provenance, id |-> row.id, ingestedTimestamp |-> t]]

\* formatRow({id, lat, lon, rating, name, datetime}), Timestamp.now() = t.
formatRow(row, t) ==
    [coords |-> [latitude |-> row.lat, longitude |-> row.lon],
     geohash |-> geohashForLocation(row.lat, row.lon),
     rating |-> row.rating - 2,
     user |-> [type |-> "guest", name |-> CleanName(row.name)],
     submittedTimestamp |-> TimestampFromDate(DateParse(row.datetime)),
     source |-> [type |-> Provenance, id |-> row.id, ingestedTimestamp |-> t]]

\* ---------------------------------------------------------------- trace

Event(op, arg, status) == [op |-> op, arg |-> arg, status |-> status]

Settle(tr, status) == [tr EXCEPT ![Len(tr)].status = status]

Calls(tr, op) == {i \in 1..Len(tr) : tr[i].op = op}

Failed(tr) == {i \in 1..Len(tr) : tr[i].status = "error"}

Succeeded(tr, op) == \E i \in Calls(tr, op) : tr[i].status = "ok"

\* ----------------------------------------------------------------- init

NoConsole == [summary |-> "", quotaNotices |-> 0]

NoPrev ==
    [resolved |-> FALSE, cutoff |-> 0, selected |-> FALSE, rows |-> <<>>,
     inserted |-> FALSE, written |-> 0, writeFailed |-> FALSE]

Init ==
    /\ points \in Snapshots
    /\ store = SetDoc(EmptyStore, <<"app", 0>>, AppSpot)
    /\ pc = "idle"
    /\ passes = 0
    /\ now = 0
    /\ cutoff = 0
    /\ srcRows = <<>>
    /\ dstRows = <<>>
    /\ next = 0
    /\ done = 0
    /\ inflight = 0
    /\ trace = <<>>
    /\ console = NoConsole
    /\ exitCode = -1
    /\ prev = NoPrev

\* -------------------------------------------------------------- ingest

\* What the pass that has just ended did.
PassSummary ==
    [resolved    |-> Succeeded(trace, "getDocs"),
     cutoff      |-> cutoff,
     selected    |-> Succeeded(trace, "all"),
     rows        |-> srcRows,
     inserted    |-> Succeeded(trace, "formatRow"),
     written     |-> done,
     writeFailed |-> \E i \in Calls(trace, "setDoc") : trace[i].status = "error"]

\* The script is run (again): ingest() is called and awaits downloadDump().
StartPass ==
    /\ pc \in {"idle", "done"}
    /\ passes < MaxPasses
    /\ prev' = IF pc = "done" THEN PassSummary ELSE NoPrev
    /\ passes' = passes + 1
    /\ now' = now + 1
    /\ pc' = "download"
    /\ cutoff' = 0
    /\ srcRows' = <<>>
    /\ dstRows' = <<>>
    /\ next' = 0
    /\ done' = 0
    /\ inflight' = 0
    /\ trace' = <<Event("downloadDump", 0, "pending")>>
    /\ console' = NoConsole
    /\ exitCode' = -1
    /\ UNCHANGED <<points, store>>

\* A rejection nothing catches ends ingest(): the promise of ingest() is
\* rejected and unhandled, and the process exits with code 1.
Rejected ==
    /\ trace' = Settle(trace, "error")
    /\ pc' = "done"
    /\ exitCode' = 1

\* downloadDump resolves; getSrcDb, getDstDb, `let cutoff = 0`, and
\* getLastIngestedRow sends its query.
DownloadResolve ==
    /\ pc = "download"
    /\ pc' = "watermark"
    /\ cutoff' = 0
    /\ trace' = Append(Settle(trace, "ok"), Event("getDocs", 0, "pending"))
    /\ UNCHANGED <<points, store, passes, now, srcRows, dstRows, next, done,
                   inflight, console, exitCode, prev>>

\* downloadDump rejects (the transfer fails).
DownloadReject ==
    /\ pc = "download"
    /\ Rejected
    /\ UNCHANGED <<points, store, passes, now, cutoff, srcRows, dstRows, next,
                   done, inflight, console, prev>>

\* The cutoff ingest() takes from what getLastIngestedRow returned.
CutoffOfNanos(docs) ==
    IF docs = {} THEN {0} ELSE {d.submittedTimestamp.nanoseconds : d \in docs}

CutoffOf(docs) ==
    IF docs = {} THEN {0} ELSE {d.submittedTimestamp.seconds : d \in docs}

\* getLastIngestedRow resolves; ingest() sets cutoff and getSrcRows sends
\* its query.
GetLastIngestedRowResolve ==
    /\ pc = "watermark"
    /\ cutoff' \in CutoffOf(LastIngestedRows(store))
    /\ pc' = "select"
    /\ trace' = Append(Settle(trace, "ok"), Event("all", 0, "pending"))
    /\ UNCHANGED <<points, store, passes, now, srcRows, dstRows, next, done,
                   inflight, console, exitCode, prev>>

\* getDocs rejects and ingest() goes on to the selection with cutoff 0.
GetLastIngestedRowRejectContinue ==
    /\ pc = "watermark"
    /\ pc' = "select"
    /\ trace' = Append(Settle(trace, "error"), Event("all", 0, "pending"))
    /\ UNCHANGED <<points, store, passes, now, cutoff, srcRows, dstRows, next,
                   done, inflight, console, exitCode, prev>>

\* getDocs rejects (the store cannot be reached).
GetLastIngestedRowReject ==
    /\ pc = "watermark"
    /\ Rejected
    /\ UNCHANGED <<points, store, passes, now, cutoff, srcRows, dstRows, next,
                   done, inflight, console, prev>>

\* db.all calls back with the rows.
GetSrcRowsResolve ==
    /\ pc = "select"
    /\ srcRows' \in SrcRowsOf(points, cutoff)
    /\ pc' = "transform"
    /\ trace' = Settle(trace, "ok")
    /\ UNCHANGED <<points, store, passes, now, cutoff, dstRows, next, done,
                   inflight, console, exitCode, prev>>

\* db.all calls back with an error.
GetSrcRowsReject ==
    /\ pc = "select"
    /\ Rejected
    /\ UNCHANGED <<points, store, passes, now, cutoff, srcRows, dstRows, next,
                   done, inflight, console, prev>>

\* srcRows.map(formatRow) returns; insertRows is called.
FormatRows ==
    /\ pc = "transform"
    /\ \A i \in 1..Len(srcRows) : ValidGeoPoint(srcRows[i].lat, srcRows[i].lon)
    /\ dstRows' = [i \in 1..Len(srcRows) |->
                      formatRow(srcRows[i], [seconds |-> now, nanoseconds |-> 0])]
    /\ pc' = "insert"
    /\ next' = 0
    /\ done' = 0
    /\ trace' = Append(trace, Event("formatRow", Len(srcRows), "ok"))
    /\ UNCHANGED <<points, store, passes, now, cutoff, srcRows, inflight,
                   console, exitCode, prev>>

\* formatRow throws on a row (new GeoPoint rejects its coordinates).
FormatRowsThrow ==
    /\ pc = "transform"
    /\ \E i \in 1..Len(srcRows) : ~ValidGeoPoint(srcRows[i].lat, srcRows[i].lon)
    /\ trace' = Append(trace, Event("formatRow", Len(srcRows), "error"))
    /\ pc' = "done"
    /\ exitCode' = 1
    /\ UNCHANGED <<points, store, passes, now, cutoff, srcRows, dstRows, next,
                   done, inflight, console, prev>>

\* ---------------------------------------------------------- insertRows

\* The loop calls setDoc for the next row without awaiting the last one.
InsertNextNoAwait ==
    /\ pc = "insert"
    /\ next < Len(dstRows)
    /\ next' = next + 1
    /\ inflight' = next + 1
    /\ trace' = Append(trace, Event("setDoc", next + 1, "pending"))
    /\ UNCHANGED <<points, store, pc, passes, now, cutoff, srcRows, dstRows,
                   done, console, exitCode, prev>>

\* The loop takes the rows from the last to the first.
InsertNextReversed ==
    /\ pc = "insert"
    /\ inflight = 0
    /\ next < Len(dstRows)
    /\ next' = next + 1
    /\ inflight' = Len(dstRows) - next
    /\ trace' = Append(trace, Event("setDoc", Len(dstRows) - next, "pending"))
    /\ UNCHANGED <<points, store, pc, passes, now, cutoff, srcRows, dstRows,
                   done, console, exitCode, prev>>

\* The for-loop takes the next row and calls setDoc for it.
InsertNext ==
    /\ pc = "insert"
    /\ inflight = 0
    /\ next < Len(dstRows)
    /\ next' = next + 1
    /\ inflight' = next + 1
    /\ trace' = Append(trace, Event("setDoc", next + 1, "pending"))
    /\ UNCHANGED <<points, store, pc, passes, now, cutoff, srcRows, dstRows,
                   done, console, exitCode, prev>>

\* The awaited setDoc resolves: the document is stored, the row is logged,
\* and the quota notice is logged once done has reached MAX_WRITES.
SetDocResolve ==
    /\ pc = "insert"
    /\ inflight # 0
    /\ store' = SetDoc(store, DocId(dstRows[inflight]), dstRows[inflight])
    /\ done' = done + 1
    /\ console' = [console EXCEPT !.quotaNotices =
                      IF done + 1 >= MAX_WRITES THEN @ + 1 ELSE @]
    /\ inflight' = 0
    /\ trace' = Settle(trace, "ok")
    /\ UNCHANGED <<points, pc, passes, now, cutoff, srcRows, dstRows, next,
                   exitCode, prev>>

\* The awaited setDoc rejects and the loop goes on with the next row.
SetDocRejectContinue ==
    /\ pc = "insert"
    /\ inflight # 0
    /\ inflight' = 0
    /\ trace' = Settle(trace, "error")
    /\ console' = [console EXCEPT !.summary = "Failed:"]
    /\ UNCHANGED <<points, store, pc, passes, now, cutoff, srcRows, dstRows,
                   next, done, exitCode, prev>>

\* The awaited setDoc rejects: insertRows rejects, the catch of ingest()
\* logs "Failed:", ingest() resolves and the process exits with code 0.
SetDocReject ==
    /\ pc = "insert"
    /\ inflight # 0
    /\ inflight' = 0
    /\ trace' = Settle(trace, "error")
    /\ console' = [console EXCEPT !.summary = "Failed:"]
    /\ pc' = "done"
    /\ exitCode' = 0
    /\ UNCHANGED <<points, store, passes, now, cutoff, srcRows, dstRows, next,
                   done, prev>>

\* insertRows rejects an empty batch.
InsertRowsReturnFailOnEmpty ==
    /\ pc = "insert"
    /\ inflight = 0
    /\ next = Len(dstRows)
    /\ console' = [console EXCEPT !.summary =
                      IF dstRows = <<>> THEN "Failed:" ELSE "Completed without error"]
    /\ pc' = "done"
    /\ exitCode' = 0
    /\ UNCHANGED <<points, store, passes, now, cutoff, srcRows, dstRows, next,
                   done, inflight, trace, prev>>

\* The loop has taken every row: insertRows resolves, ingest() logs
\* "Completed without error" and resolves; the process exits with code 0.
InsertRowsReturn ==
    /\ pc = "insert"
    /\ inflight = 0
    /\ next = Len(dstRows)
    /\ console' = [console EXCEPT !.summary = "Completed without error"]
    /\ pc' = "done"
    /\ exitCode' = 0
    /\ UNCHANGED <<points, store, passes, now, cutoff, srcRows, dstRows, next,
                   done, inflight, trace, prev>>

Next ==
    \/ StartPass
    \/ DownloadResolve
    \/ DownloadReject
    \/ GetLastIngestedRowResolve
    \/ GetLastIngestedRowReject
    \/ GetSrcRowsResolve
    \/ GetSrcRowsReject
    \/ FormatRows
    \/ FormatRowsThrow
    \/ InsertNext
    \/ SetDocResolve
    \/ SetDocReject
    \/ InsertRowsReturn

Spec == Init /\ [][Next]_vars

\* ------------------------------------------------ upsert, on its own

\* The store before the upsert under test: nothing ingested yet, or the
\* first row already ingested by an earlier run.
UpsertInit ==
    /\ points \in Snapshots
    /\ LET fresh   == SetDoc(EmptyStore, <<"app", 0>>, AppSpot)
           t0      == [seconds |-> 0, nanoseconds |-> 0]
           earlier == {formatRow(points[i], t0) :
                         i \in {j \in 1..Len(points) :
                                  j = 1 /\ ValidGeoPoint(points[j].lat, points[j].lon)}}
       IN  store \in {fresh} \cup {SetDoc(fresh, DocId(d), d) : d \in earlier}
    /\ pc = "idle"
    /\ passes = 0
    /\ now = 1
    /\ cutoff = 0
    /\ srcRows = <<>>
    /\ dstRows = <<>>
    /\ next = 0
    /\ done = 0
    /\ inflight = 0
    /\ trace = <<>>
    /\ console = NoConsole
    /\ exitCode = -1
    /\ prev = NoPrev

\* formatRow is applied to one row of the table.
UpsertFormat ==
    /\ pc = "idle"
    /\ \E i \in 1..Len(points) :
          /\ ValidGeoPoint(points[i].lat, points[i].lon)
          /\ srcRows' = <<points[i]>>
          /\ dstRows' = <<formatRow(points[i], [seconds |-> now, nanoseconds |-> 0])>>
    /\ pc' = "formatted"
    /\ UNCHANGED <<points, store, passes, now, cutoff, next, done, inflight,
                   trace, console, exitCode, prev>>

\* The formatted document is written as insertRows writes it, once and
\* then once more.
UpsertWrite ==
    /\ pc \in {"formatted", "once"}
    /\ store' = SetDoc(store, DocId(dstRows[1]), dstRows[1])
    /\ done' = done + 1
    /\ pc' = IF pc = "formatted" THEN "once" ELSE "twice"
    /\ UNCHANGED <<points, passes, now, cutoff, srcRows, dstRows, next,
                   inflight, trace, console, exitCode, prev>>

UpsertNext == UpsertFormat \/ UpsertWrite

SpecUpsert == UpsertInit /\ [][UpsertNext]_vars

\* ---------------------------------------------------------------- claims

SetDocCalls == Calls(trace, "setDoc")

\* submittedTimestamp formatRow gives a row.
SubmittedOf(row) == TimestampFromDate(DateParse(row.datetime))

\* The ids of the rows of a result.
IdsOf(rows) == {rows[i].id : i \in 1..Len(rows)}

\* The previous pass selected more rows than the budget and no write failed.
PrevOverBudget ==
    /\ prev.inserted
    /\ ~prev.writeFailed
    /\ Len(prev.rows) > MAX_WRITES

\* C1: once `done` has reached MAX_WRITES no further setDoc is issued: a
\* pass never issues more than MAX_WRITES setDoc calls, and a pass over a
\* batch longer than MAX_WRITES in which no write fails ends having issued
\* exactly MAX_WRITES, without reporting a failure.
C1_BudgetHardStop ==
    /\ Cardinality(SetDocCalls) <= MAX_WRITES
    /\ (pc = "done" /\ Succeeded(trace, "formatRow") /\ Failed(trace) = {}
          /\ Len(dstRows) > MAX_WRITES)
       => /\ Cardinality(SetDocCalls) = MAX_WRITES
          /\ console.summary # "Failed:"

\* C2: when the previous pass was budget-limited (its batch was longer than
\* the budget and no write failed), it wrote exactly k = MAX_WRITES records,
\* each written record is no later than each unwritten one, and the
\* watermark this pass resolved is the greatest submittedTimestamp of the k.
C2_NoGapUnderBudgetStop ==
    (pc = "select" /\ PrevOverBudget)
    => /\ prev.written = MAX_WRITES
       /\ prev.written < Len(prev.rows)
       /\ \A i \in 1..prev.written : \A j \in (prev.written + 1)..Len(prev.rows) :
             TimestampLeq(SubmittedOf(prev.rows[i]), SubmittedOf(prev.rows[j]))
       /\ \E i \in 1..prev.written :
             /\ SubmittedOf(prev.rows[i]) = [seconds |-> cutoff, nanoseconds |-> 0]
             /\ \A j \in 1..prev.written :
                   TimestampLeq(SubmittedOf(prev.rows[j]), SubmittedOf(prev.rows[i]))

\* C3: when the previous pass ended on a write failure with selected rows
\* unwritten, this pass selects every one of those rows again.
C3_UnwrittenReselected ==
    (pc = "transform" /\ prev.writeFailed)
    => \A j \in (prev.written + 1)..Len(prev.rows) : prev.rows[j].id \in IdsOf(srcRows)

\* C4: no selected row has a creation time less than or equal to a
\* submittedTimestamp already stored with provenance "hitchwiki".
C4_NoReingestionAtBoundary ==
    pc = "transform"
    => \A i \in 1..Len(srcRows) : \A k \in Ingested(store) :
          TimestampLess(store[k].submittedTimestamp, SubmittedOf(srcRows[i]))

\* C5: the cutoff this pass resolved is greater than or equal to the cutoff
\* the previous pass used.
C5_WatermarkMonotone ==
    (Succeeded(trace, "getDocs") /\ prev.resolved) => cutoff >= prev.cutoff

\* A pass has resolved a greater cutoff than the previous one, which had
\* stopped on a write failure after writing a row.
C5_Witness ==
    /\ pc = "select"
    /\ prev.writeFailed
    /\ prev.written >= 1
    /\ cutoff > prev.cutoff

\* C6: writing the document formatRow gave a second time leaves the store
\* as the first write left it: same document ids, same documents.
C6_IdempotentUpsert ==
    [][(pc = "once" /\ pc' = "twice") => store' = store]_vars

\* The formatted document has been written twice, over an earlier document
\* of the same source id.
C6_Witness ==
    /\ pc = "twice"
    /\ store[DocId(dstRows[1])] = dstRows[1]
    /\ dstRows[1].source.ingestedTimestamp.seconds = 1
    /\ Cardinality(Ingested(store)) = 1
    /\ srcRows[1].id = 1

\* C7: every "hitchwiki" document is stored under <<"hitchwiki", source.id>>,
\* so no source id has two documents.
C7_IdentityKey ==
    /\ \A k \in Ingested(store) : k = <<Provenance, store[k].source.id>>
    /\ \A k, j \in Ingested(store) :
          store[k].source.id = store[j].source.id => k = j

\* A pass has rewritten a document the previous pass had written.
C7_Witness ==
    /\ pc = "done"
    /\ \E i \in SetDocCalls : \E j \in 1..prev.written :
          /\ trace[i].status = "ok"
          /\ dstRows[trace[i].arg].source.id = prev.rows[j].id
    /\ Cardinality(Ingested(store)) = MaxRows

\* C8: a failed setDoc is the last call of its pass (no row after it is
\* written, the row is not tried again), and the pass has ended with the
\* error logged, not with "Completed without error".
C8_WriteFailureAborts ==
    \A i \in SetDocCalls :
        trace[i].status = "error"
        => /\ i = Len(trace)
           /\ \A j \in SetDocCalls : trace[j].arg = trace[i].arg => j = i
           /\ pc = "done"
           /\ console.summary = "Failed:"

\* The first setDoc of a batch of MaxRows rows has failed.
C8_Witness ==
    /\ pc = "done"
    /\ Len(dstRows) = MaxRows
    /\ \E i \in SetDocCalls : trace[i].status = "error" /\ trace[i].arg = 1
    /\ next = 1

StageRank(op) ==
    CASE op = "downloadDump" -> 1
      [] op = "getDocs"      -> 2
      [] op = "all"          -> 3
      [] op = "formatRow"    -> 4
      [] op = "setDoc"       -> 5

\* C9: the calls of a pass are made in the order download, watermark read,
\* selection, transform, writes, none skipped; a call that failed is the
\* last call of its pass, and the pass has ended.
C9_StageOrder ==
    /\ trace # <<>> => trace[1].op = "downloadDump"
    /\ \A i \in 1..(Len(trace) - 1) :
          /\ trace[i].status = "ok"
          /\ \/ StageRank(trace[i + 1].op) = StageRank(trace[i].op) + 1
             \/ trace[i].op = "setDoc" /\ trace[i + 1].op = "setDoc"
    /\ Failed(trace) # {} => pc = "done"

\* The selection has failed after the watermark was read.
C9_Witness ==
    /\ pc = "done"
    /\ Len(trace) = 3
    /\ trace[3] = Event("all", 0, "error")
    /\ points # <<>>

\* C10: the process exits with code 0 exactly when no stage of the pass
\* failed, and with another code when one did.
C10_ExitCode ==
    pc = "done" => (exitCode = 0 <=> Failed(trace) = {})

\* The setDoc calls of this pass whose promise has not settled.
PendingSetDocs == {i \in SetDocCalls : trace[i].status = "pending"}

\* C11: at most one setDoc is awaited at any time, a setDoc is called only
\* after every earlier one of the pass has resolved, and the calls take the
\* rows of the batch in their order, the n-th call the n-th row.
C11_SequentialWrites ==
    /\ Cardinality(PendingSetDocs) <= 1
    /\ \A i, j \in SetDocCalls : i < j => trace[i].status = "ok"
    /\ \A i \in SetDocCalls :
          trace[i].arg = Cardinality({j \in SetDocCalls : j <= i})

\* The second row's setDoc is awaited, the first one's having resolved.
C11_Witness ==
    /\ pc = "insert"
    /\ inflight = 2
    /\ PendingSetDocs # {}
    /\ \E i \in SetDocCalls : trace[i].arg = 1 /\ trace[i].status = "ok"

\* C12: with no "hitchwiki" document in the store the watermark read can
\* resolve and the cutoff is 0; otherwise the cutoff is the whole seconds
\* of the greatest submittedTimestamp among the "hitchwiki" documents.  The
\* read leaves the store as it was.
C12_FirstRunWatermark ==
    /\ [](pc = "watermark" => ENABLED GetLastIngestedRowResolve)
    /\ [](pc = "select" =>
            IF Ingested(store) = {} THEN cutoff = 0
            ELSE \E k \in Ingested(store) :
                    /\ cutoff = store[k].submittedTimestamp.seconds
                    /\ \A j \in Ingested(store) :
                          TimestampLeq(store[j].submittedTimestamp,
                                       store[k].submittedTimestamp))
    /\ [][pc = "watermark" => store' = store]_vars

\* The first run has resolved its cutoff over a store that holds a
\* document, none of it ingested.
C12_Witness ==
    /\ pc = "select"
    /\ passes = 1
    /\ Ingested(store) = {}
    /\ DOMAIN store # {}
    /\ cutoff = 0

\* C13: a pass whose selection returned no row calls setDoc for nothing,
\* leaves the store unchanged and ends with "Completed without error" and
\* exit code 0.
C13_EmptyPassNoOp ==
    /\ []((Succeeded(trace, "all") /\ srcRows = <<>>) =>
            /\ SetDocCalls = {}
            /\ pc = "done" => (console.summary = "Completed without error"
                               /\ exitCode = 0))
    /\ [][(Succeeded(trace, "all") /\ srcRows = <<>>) => store' = store]_vars

\* A pass over a table that has rows has ended having selected none.
C13_Witness ==
    /\ pc = "done"
    /\ Succeeded(trace, "all")
    /\ srcRows = <<>>
    /\ points # <<>>
    /\ exitCode = 0

\* C14: the rows selected are exactly the rows of the table that are not
\* banned, are reviewed, are rated above 2 and were created after the
\* cutoff instant, each once, in ascending order of creation time.
C14_SelectionExact ==
    pc = "transform" =>
       /\ IdsOf(srcRows) =
             {points[i].id : i \in {j \in 1..Len(points) :
                 /\ points[j].banned = 0
                 /\ points[j].reviewed = 1
                 /\ points[j].rating > 2
                 /\ DateParse(points[j].datetime) > cutoff * TicksPerSec}}
       /\ \A i \in 1..Len(srcRows) : \E j \in 1..Len(points) : srcRows[i] = points[j]
       /\ Cardinality(IdsOf(srcRows)) = Len(srcRows)
       /\ \A i, j \in 1..Len(srcRows) :
             i < j => DateParse(srcRows[i].datetime) <= DateParse(srcRows[j].datetime)

\* A selection under a cutoff above 0 has kept one row and left out another.
C14_Witness ==
    /\ pc = "transform"
    /\ cutoff > 0
    /\ Len(srcRows) = 1
    /\ Len(points) = MaxRows

\* C15: a formatted row has its source rating less 2, every "hitchwiki"
\* document in the store has a rating among 1, 2, 3, and it comes from a
\* row of the table rated above 2.
C15_RatingRescale ==
    /\ Len(dstRows) = Len(srcRows) =>
          \A i \in 1..Len(dstRows) :
             /\ srcRows[i].rating \in {3, 4, 5}
             /\ dstRows[i].rating = srcRows[i].rating - 2
    /\ \A k \in Ingested(store) :
          /\ store[k].rating \in {1, 2, 3}
          /\ \E i \in 1..Len(points) :
                /\ points[i].id = store[k].source.id
                /\ points[i].rating > 2
                /\ store[k].rating = points[i].rating - 2

\* A pass has ended with a document rated 3 in the store and none for a row
\* of the table rated 2.
C15_Witness ==
    /\ pc = "done"
    /\ \E k \in Ingested(store) : store[k].rating = 3
    /\ \E i \in 1..Len(points) :
          points[i].rating = 2 /\ <<Provenance, points[i].id>> \notin DOMAIN store

\* C17: the row a setDoc writes is no earlier than any "hitchwiki" document
\* in the store at that moment, and every row of a batch is later than
\* every "hitchwiki" document stored when the pass resolved its watermark
\* (the store the pass still finds before its first write).
C17_NonDecreasingIngestion ==
    /\ inflight # 0 =>
          \A k \in Ingested(store) :
             TimestampLeq(store[k].submittedTimestamp,
                          dstRows[inflight].submittedTimestamp)
    /\ (pc = "insert" /\ next = 0) =>
          \A i \in 1..Len(dstRows) : \A k \in Ingested(store) :
             TimestampLess(store[k].submittedTimestamp,
                           dstRows[i].submittedTimestamp)

\* The rows of the table the query can ever select.
Eligible == {i \in 1..Len(points) :
               points[i].banned = 0 /\ points[i].reviewed = 1 /\ points[i].rating > 2}

\* C18: no eligible row is skipped for good.  A pass in which every call
\* succeeded and nothing was selected leaves the store as it found it, so
\* every later pass does the same: when such a pass ends, every eligible row
\* has its document.
C18_NoRowSkippedForGood ==
    (pc = "done" /\ Failed(trace) = {} /\ Succeeded(trace, "formatRow")
       /\ srcRows = <<>>)
    => \A i \in Eligible : <<Provenance, points[i].id>> \in DOMAIN store

\* C19: the rows of the batch this pass has written are its first `done`
\* rows, and after a failed write of the row at position i they are the
\* first i - 1.
C19_PrefixWritten ==
    Succeeded(trace, "formatRow") =>
       /\ {trace[i].arg : i \in {j \in SetDocCalls : trace[j].status = "ok"}}
             = 1..done
       /\ \A i \in SetDocCalls : trace[i].status = "error" => done = trace[i].arg - 1
       /\ \A j \in 1..Len(dstRows) :
             (/\ DocId(dstRows[j]) \in DOMAIN store
              /\ store[DocId(dstRows[j])] = dstRows[j]) <=> j <= done

\* A pass has ended on the failed write of its second row.
C19_Witness ==
    /\ pc = "done"
    /\ done = 1
    /\ \E i \in SetDocCalls : trace[i].status = "error" /\ trace[i].arg = 2

\* C20: a write to a document id the store already holds changes, of that
\* document, source.ingestedTimestamp at most, and no other document.
C20_OverwriteFrame ==
    [][(inflight # 0 /\ store' # store /\ DocId(dstRows[inflight]) \in DOMAIN store)
         => LET id == DocId(dstRows[inflight]) IN
            /\ DOMAIN store' = DOMAIN store
            /\ \A k \in DOMAIN store \ {id} : store'[k] = store[k]
            /\ [store'[id] EXCEPT !.source.ingestedTimestamp =
                                     store[id].source.ingestedTimestamp] = store[id]
      ]_vars

\* A later pass has rewritten, with a later ingestedTimestamp, the document
\* of a row the pass before it had written.
C20_Witness ==
    /\ pc = "insert"
    /\ done >= 1
    /\ store[DocId(dstRows[1])] = dstRows[1]
    /\ dstRows[1].source.ingestedTimestamp.seconds >= 2
    /\ \E j \in 1..prev.written : prev.rows[j].id = dstRows[1].source.id

\* ------------------------------------------- two runs at the same time

\* Two runs of the script over the same dump and the same store, their
\* steps interleaved in any way.  pc, cutoff, srcRows, dstRows, next, done,
\* inflight, trace, console and exitCode hold one value per run; the clock
\* ticks when a run formats its rows; `prev` keeps the store the two runs
\* started from.
Runs == {1, 2}

\* The stores the two runs may start from: nothing ingested yet, or the
\* first row of the table's batch ingested by an earlier run.
EarlierStores(table) ==
    LET fresh == SetDoc(EmptyStore, <<"app", 0>>, AppSpot)
        t0    == [seconds |-> 0, nanoseconds |-> 0]
        first == {formatRow(rows[1], t0) :
                    rows \in {r \in SrcRowsOf(table, 0) :
                                /\ r # <<>>
                                /\ \A i \in 1..Len(r) : ValidGeoPoint(r[i].lat, r[i].lon)}}
    IN  {fresh} \cup {SetDoc(fresh, DocId(d), d) : d \in first}

ConcurrentInit ==
    /\ points \in Snapshots
    /\ store \in EarlierStores(points)
    /\ prev = store
    /\ pc = [p \in Runs |-> "idle"]
    /\ passes = 0
    /\ now = 0
    /\ cutoff = [p \in Runs |-> 0]
    /\ srcRows = [p \in Runs |-> <<>>]
    /\ dstRows = [p \in Runs |-> <<>>]
    /\ next = [p \in Runs |-> 0]
    /\ done = [p \in Runs |-> 0]
    /\ inflight = [p \in Runs |-> 0]
    /\ trace = [p \in Runs |-> <<>>]
    /\ console = [p \in Runs |-> NoConsole]
    /\ exitCode = [p \in Runs |-> -1]

\* Run p is started: ingest() awaits downloadDump().
ConcurrentStart(p) ==
    /\ pc[p] = "idle"
    /\ pc' = [pc EXCEPT ![p] = "download"]
    /\ passes' = passes + 1
    /\ trace' = [trace EXCEPT ![p] = <<Event("downloadDump", 0, "pending")>>]
    /\ UNCHANGED <<points, store, now, cutoff, srcRows, dstRows, next, done,
                   inflight, console, exitCode, prev>>

\* downloadDump, getDocs or db.all of run p rejects: the run ends, code 1.
ConcurrentReject(p) ==
    /\ pc[p] \in {"download", "watermark", "select"}
    /\ trace' = [trace EXCEPT ![p] = Settle(@, "error")]
    /\ pc' = [pc EXCEPT ![p] = "done"]
    /\ exitCode' = [exitCode EXCEPT ![p] = 1]
    /\ UNCHANGED <<points, store, passes, now, cutoff, srcRows, dstRows, next,
                   done, inflight, console, prev>>

ConcurrentDownloadResolve(p) ==
    /\ pc[p] = "download"
    /\ pc' = [pc EXCEPT ![p] = "watermark"]
    /\ trace' = [trace EXCEPT ![p] =
                    Append(Settle(@, "ok"), Event("getDocs", 0, "pending"))]
    /\ UNCHANGED <<points, store, passes, now, cutoff, srcRows, dstRows, next,
                   done, inflight, console, exitCode, prev>>

ConcurrentGetLastIngestedRowResolve(p) ==
    /\ pc[p] = "watermark"
    /\ \E c \in CutoffOf(LastIngestedRows(store)) :
          cutoff' = [cutoff EXCEPT ![p] = c]
    /\ pc' = [pc EXCEPT ![p] = "select"]
    /\ trace' = [trace EXCEPT ![p] =
                    Append(Settle(@, "ok"), Event("all", 0, "pending"))]
    /\ UNCHANGED <<points, store, passes, now, srcRows, dstRows, next, done,
                   inflight, console, exitCode, prev>>

ConcurrentGetSrcRowsResolve(p) ==
    /\ pc[p] = "select"
    /\ \E rows \in SrcRowsOf(points, cutoff[p]) :
          srcRows' = [srcRows EXCEPT ![p] = rows]
    /\ pc' = [pc EXCEPT ![p] = "transform"]
    /\ trace' = [trace EXCEPT ![p] = Settle(@, "ok")]
    /\ UNCHANGED <<points, store, passes, now, cutoff, dstRows, next, done,
                   inflight, console, exitCode, prev>>

ConcurrentFormatRows(p) ==
    /\ pc[p] = "transform"
    /\ \A i \in 1..Len(srcRows[p]) :
          ValidGeoPoint(srcRows[p][i].lat, srcRows[p][i].lon)
    /\ now' = now + 1
    /\ dstRows' = [dstRows EXCEPT ![p] =
                      [i \in 1..Len(srcRows[p]) |->
                          formatRow(srcRows[p][i],
                                    [seconds |-> now + 1, nanoseconds |-> 0])]]
    /\ pc' = [pc EXCEPT ![p] = "insert"]
    /\ trace' = [trace EXCEPT ![p] =
                    Append(@, Event("formatRow", Len(srcRows[p]), "ok"))]
    /\ UNCHANGED <<points, store, passes, cutoff, srcRows, next, done,
                   inflight, console, exitCode, prev>>

ConcurrentFormatRowsThrow(p) ==
    /\ pc[p] = "transform"
    /\ \E i \in 1..Len(srcRows[p]) :
          ~ValidGeoPoint(srcRows[p][i].lat, srcRows[p][i].lon)
    /\ trace' = [trace EXCEPT ![p] =
                    Append(@, Event("formatRow", Len(srcRows[p]), "error"))]
    /\ pc' = [pc EXCEPT ![p] = "done"]
    /\ exitCode' = [exitCode EXCEPT ![p] = 1]
    /\ UNCHANGED <<points, store, passes, now, cutoff, srcRows, dstRows, next,
                   done, inflight, console, prev>>

ConcurrentInsertNext(p) ==
    /\ pc[p] = "insert"
    /\ inflight[p] = 0
    /\ next[p] < Len(dstRows[p])
    /\ next' = [next EXCEPT ![p] = @ + 1]
    /\ inflight' = [inflight EXCEPT ![p] = next[p] + 1]
    /\ trace' = [trace EXCEPT ![p] =
                    Append(@, Event("setDoc", next[p] + 1, "pending"))]
    /\ UNCHANGED <<points, store, pc, passes, now, cutoff, srcRows, dstRows,
                   done, console, exitCode, prev>>

ConcurrentSetDocResolve(p) ==
    /\ pc[p] = "insert"
    /\ inflight[p] # 0
    /\ store' = SetDoc(store, DocId(dstRows[p][inflight[p]]),
                       dstRows[p][inflight[p]])
    /\ done' = [done EXCEPT ![p] = @ + 1]
    /\ console' = [console EXCEPT ![p].quotaNotices =
                      IF done[p] + 1 >= MAX_WRITES THEN @ + 1 ELSE @]
    /\ inflight' = [inflight EXCEPT ![p] = 0]
    /\ trace' = [trace EXCEPT ![p] = Settle(@, "ok")]
    /\ UNCHANGED <<points, pc, passes, now, cutoff, srcRows, dstRows, next,
                   exitCode, prev>>

ConcurrentSetDocReject(p) ==
    /\ pc[p] = "insert"
    /\ inflight[p] # 0
    /\ inflight' = [inflight EXCEPT ![p] = 0]
    /\ trace' = [trace EXCEPT ![p] = Settle(@, "error")]
    /\ console' = [console EXCEPT ![p].summary = "Failed:"]
    /\ pc' = [pc EXCEPT ![p] = "done"]
    /\ exitCode' = [exitCode EXCEPT ![p] = 0]
    /\ UNCHANGED <<points, store, passes, now, cutoff, srcRows, dstRows, next,
                   done, prev>>

ConcurrentInsertRowsReturn(p) ==
    /\ pc[p] = "insert"
    /\ inflight[p] = 0
    /\ next[p] = Len(dstRows[p])
    /\ console' = [console EXCEPT ![p].summary = "Completed without error"]
    /\ pc' = [pc EXCEPT ![p] = "done"]
    /\ exitCode' = [exitCode EXCEPT ![p] = 0]
    /\ UNCHANGED <<points, store, passes, now, cutoff, srcRows, dstRows, next,
                   done, inflight, trace, prev>>

ConcurrentNext ==
    \E p \in Runs :
        \/ ConcurrentStart(p)
        \/ ConcurrentReject(p)
        \/ ConcurrentDownloadResolve(p)
        \/ ConcurrentGetLastIngestedRowResolve(p)
        \/ ConcurrentGetSrcRowsResolve(p)
        \/ ConcurrentFormatRows(p)
        \/ ConcurrentFormatRowsThrow(p)
        \/ ConcurrentInsertNext(p)
        \/ ConcurrentSetDocResolve(p)
        \/ ConcurrentSetDocReject(p)
        \/ ConcurrentInsertRowsReturn(p)

SpecConcurrent == ConcurrentInit /\ [][ConcurrentNext]_vars

\* A document without the time it was ingested.
Frame(d) ==
    [d EXCEPT !.source.ingestedTimestamp = [seconds |-> 0, nanoseconds |-> 0]]

\* The document ids and frames one run alone, every call succeeding, leaves
\* in the store st0: the documents of st0 and those of the rows above st0's
\* watermark (none when formatRow throws on one of them).
AloneResult(st0) ==
    LET c    == CHOOSE x \in CutoffOf(LastIngestedRows(st0)) : TRUE
        sel  == {i \in Eligible : DateParse(points[i].datetime) > c * TicksPerSec}
        rows == IF \A i \in sel : ValidGeoPoint(points[i].lat, points[i].lon)
                THEN sel ELSE {}
    IN  {<<k, Frame(st0[k])>> :
            k \in DOMAIN st0 \ {<<Provenance, points[i].id>> : i \in rows}}
        \cup {<<<<Provenance, points[i].id>>,
                Frame(formatRow(points[i], [seconds |-> 0, nanoseconds |-> 0]))>> :
                 i \in rows}

\* Both runs have ended and no call of either failed.
BothCompleted ==
    \A p \in Runs :
        pc[p] = "done" /\ \A i \in 1..Len(trace[p]) : trace[p][i].status = "ok"

\* C16: whatever the interleaving of two runs, the store never holds two
\* documents of one source id, and when both runs have completed its
\* document ids and their fields other than source.ingestedTimestamp are
\* those one run alone leaves.
C16_ConcurrentRunsHarmless ==
    /\ \A k, j \in Ingested(store) :
          store[k].source.id = store[j].source.id => k = j
    /\ BothCompleted =>
          {<<k, Frame(store[k])>> : k \in DOMAIN store} = AloneResult(prev)

\* Both runs have completed having read the same watermark and written the
\* same MaxRows rows.
C16_Witness ==
    /\ BothCompleted
    /\ cutoff[1] = cutoff[2]
    /\ \A p \in Runs : done[p] = MaxRows
    /\ \E k \in Ingested(store) : store[k].source.ingestedTimestamp.seconds = 1
    /\ \E k \in Ingested(store) : store[k].source.ingestedTimestamp.seconds = 2

====
